---- MODULE Spec2Model ----
(***************************************************************************)
(* Model of the Olist loyalty engine:                                      *)
(*   - src/src/data_loader.py: load_and_clean_data and the script body     *)
(*     that saves clean_data.csv (specification Spec);                     *)
(*   - src/src/hubspot_connector.py: send_to_hubspot (specification        *)
(*     SpecUpload).                                                        *)
(* Dataframes are sequences of records (row order is kept, as pandas       *)
(* keeps it); a missing value is NaN for numbers, NoCategory for the       *)
(* category string and NaT for a timestamp.                                *)
(***************************************************************************)
EXTENDS Integers, Sequences, FiniteSets, TLC

\* ------------------------------------------------------------- bounds
\* Total number of rows held by the five source tables together.
MaxRows == 4
\* Largest number of contact records handed to send_to_hubspot.
MaxRecords == 31

\* ---------------------------------------------------- program constants
BATCH_SIZE == 10

\* ------------------------------------------------------ value domains
OrderIds == {1, 2}
ProductIds == {21, 22}
CustomerIds == {11, 12}
Statuses == {"delivered", "shipped", "Delivered"}
Categories == {"toys", "books"}
Scores == {4, 5}
UniqueCustomers == {"u1", "u2"}

\* Missing values, as pandas leaves them after a left join or a coercion.
NaN == -1
NoCategory == "NaN"
NaT == <<"NaT">>
NoScore == <<0, 0>>

date_cols ==
    << "order_purchase_timestamp", "order_approved_at",
       "order_delivered_carrier_date", "order_delivered_customer_date",
       "order_estimated_delivery_date" >>

DateColSet == {date_cols[k] : k \in 1..Len(date_cols)}

\* The timestamp strings the database hands back; the last two do not parse.
ParseableDates == {"2017-10-02 10:56:33", "2017-10-02 11:07:15"}
RawDates(o) ==
    IF o = 1
    THEN [c \in DateColSet |-> IF c = "order_purchase_timestamp"
                               THEN "2017-10-02 10:56:33"
                               ELSE "2017-10-02 11:07:15"]
    ELSE [c \in DateColSet |-> IF c = "order_purchase_timestamp"
                               THEN "2017-10-02 10:56:33"
                               ELSE IF c = "order_approved_at"
                                    THEN "not-a-date"
                                    ELSE ""]

\* ------------------------------------------------------- source rows
\* olist_orders_dataset: order_id is the primary key, customer_id is the
\* order-scoped customer key of that order.
OrderRows ==
    { [order_id |-> o, customer_id |-> o + 10, order_status |-> s] @@ RawDates(o)
        : o \in OrderIds, s \in Statuses }

\* olist_order_items_dataset: several rows per order; price and freight as
\* integers (cents).
ItemRows ==
    { [order_id |-> o, product_id |-> p,
       price |-> IF p = 21 THEN 10 ELSE 5,
       freight_value |-> IF p = 21 THEN 2 ELSE 1]
        : o \in OrderIds, p \in ProductIds }

\* olist_products_dataset: product_id is the primary key, category nullable.
ProductRows ==
    { [product_id |-> p, product_category_name |-> c]
        : p \in ProductIds, c \in Categories \cup {NoCategory} }

\* olist_order_reviews_dataset: zero or more reviews per order.
ReviewRows ==
    { [order_id |-> o, review_score |-> s] : o \in OrderIds, s \in Scores }

\* olist_customers_dataset: nothing in the loader makes customer_id unique.
CustomerRows ==
    { [customer_id |-> c, customer_unique_id |-> u]
        : c \in CustomerIds, u \in UniqueCustomers }

SeqsUpTo(S, n) == UNION { [1..k -> S] : k \in 0..n }

UniqueOn(t, key) ==
    \A a, b \in 1..Len(t) : t[a][key] = t[b][key] => a = b

OrderTables(n) == { t \in SeqsUpTo(OrderRows, n) : UniqueOn(t, "order_id") }
ItemTables(n) == SeqsUpTo(ItemRows, n)
CustomerTables(n) == SeqsUpTo(CustomerRows, n)
ReviewTables(n) == SeqsUpTo(ReviewRows, n)
ProductTables(n) == { t \in SeqsUpTo(ProductRows, n) : UniqueOn(t, "product_id") }

\* ------------------------------------------------- dataframe helpers
RECURSIVE Flatten(_)
Flatten(ss) == IF ss = <<>> THEN <<>> ELSE Head(ss) \o Flatten(Tail(ss))

RECURSIVE SortedSeq(_)
SortedSeq(S) ==
    IF S = {} THEN <<>>
    ELSE LET m == CHOOSE x \in S : \A y \in S : x <= y
         IN <<m>> \o SortedSeq(S \ {m})

Min(a, b) == IF a <= b THEN a ELSE b

RECURSIVE GCD(_, _)
GCD(a, b) == IF b = 0 THEN a ELSE GCD(b, a % b)

\* A mean is kept exact, as the reduced fraction <<numerator, denominator>>.
Frac(n, d) == LET g == GCD(n, d) IN << n \div g, d \div g >>

\* pd.to_datetime(..., errors='coerce')
ToDatetime(v) == IF v \in ParseableDates THEN <<"ts", v>> ELSE NaT

\* DataFrame.merge(right, on=key, how='left'): every left row, once per
\* matching right row, or once with the right columns missing.
MergeLeft(left, right, key, missing) ==
    Flatten([ i \in 1..Len(left) |->
        LET m == SelectSeq(right, LAMBDA r : r[key] = left[i][key])
        IN IF m = <<>> THEN << left[i] @@ missing >>
           ELSE [ j \in 1..Len(m) |-> left[i] @@ m[j] ] ])

\* DataFrame.merge(right, on=key, how='inner')
MergeInner(left, right, key) ==
    Flatten([ i \in 1..Len(left) |->
        LET m == SelectSeq(right, LAMBDA r : r[key] = left[i][key])
        IN [ j \in 1..Len(m) |-> left[i] @@ m[j] ] ])

\* groupby('order_id'): the group keys in sorted order, and a group's rows
\* in the order they have in the frame.
GroupKeys(df) == SortedSeq({ df[i].order_id : i \in 1..Len(df) })
Group(df, k) == SelectSeq(df, LAMBDA r : r.order_id = k)

\* GroupBy 'sum': missing values are skipped.
RECURSIVE AggSum(_, _)
AggSum(rows, col) ==
    IF rows = <<>> THEN 0
    ELSE (IF Head(rows)[col] = NaN THEN 0 ELSE Head(rows)[col])
         + AggSum(Tail(rows), col)

AggFirstRow(rows, col) ==
    IF rows = <<>> THEN NoCategory ELSE Head(rows)[col]

\* GroupBy 'first': the first value of the group that is not missing.
RECURSIVE AggFirst(_, _)
AggFirst(rows, col) ==
    IF rows = <<>> THEN NoCategory
    ELSE IF Head(rows)[col] # NoCategory THEN Head(rows)[col]
         ELSE AggFirst(Tail(rows), col)

AggMeanFirst(rows, col) ==
    IF rows = <<>> THEN NoScore ELSE Frac(Head(rows)[col], 1)

\* GroupBy 'mean'
AggMean(rows, col) ==
    LET present == SelectSeq(rows, LAMBDA r : r[col] # NaN)
    IN IF present = <<>> THEN NoScore
       ELSE Frac(AggSum(present, col), Len(present))

\* ------------------------------------- steps of load_and_clean_data
\* 2. Fix Date Types
FixDates(df) ==
    [ i \in 1..Len(df) |->
        [ f \in DOMAIN df[i] |->
            IF f \in DateColSet THEN ToDatetime(df[i][f]) ELSE df[i][f] ] ]

FilterNotShipped(df) == SelectSeq(df, LAMBDA r : r.order_status # "shipped")

\* 3. Filter "Ghost Orders": orders[orders['order_status'] == 'delivered']
FilterDelivered(df) == SelectSeq(df, LAMBDA r : r.order_status = "delivered")

EnrichItemsInner(its, prods) == MergeInner(its, prods, "product_id")

\* 4. Enrich Items with Category
EnrichItems(its, prods) ==
    MergeLeft(its, prods, "product_id", [product_category_name |-> NoCategory])

\* 5. Aggregate Items (Order Level), one row per order_id of the frame
AggregateItems(enriched) ==
    LET keys == GroupKeys(enriched)
    IN [ k \in 1..Len(keys) |->
            LET g == Group(enriched, keys[k])
            IN [ order_id |-> keys[k],
                 price |-> AggSum(g, "price"),
                 freight_value |-> AggSum(g, "freight_value"),
                 product_category_name |-> AggFirst(g, "product_category_name") ] ]

\* order_items_agg['total_order_value'] = price + freight_value
AddTotalOrderValue(agg) ==
    [ k \in 1..Len(agg) |->
        agg[k] @@ [total_order_value |-> agg[k].price + agg[k].freight_value] ]

\* 6. Prepare Reviews
PrepareReviews(rv) ==
    LET keys == GroupKeys(rv)
    IN [ k \in 1..Len(keys) |->
            [ order_id |-> keys[k],
              review_score |-> AggMean(Group(rv, keys[k]), "review_score") ] ]

\* The columns a left join on order_items_agg leaves missing.
NoItems ==
    [ price |-> NaN, freight_value |-> NaN,
      product_category_name |-> NoCategory, total_order_value |-> NaN ]

MergeCustomersLeft(df, cust) ==
    MergeLeft(df, cust, "customer_id", [customer_unique_id |-> "NaN"])

\* final_df = merged_df.merge(customers, on='customer_id', how='inner')
MergeCustomers(df, cust) == MergeInner(df, cust, "customer_id")

GreatMergeInnerItems(ord, agg, ragg, cust) ==
    LET merged1 == MergeInner(ord, agg, "order_id")
        merged2 == MergeLeft(merged1, ragg, "order_id", [review_score |-> NoScore])
    IN MergeInner(merged2, cust, "customer_id")

\* 7. The Great Merge
GreatMerge(ord, agg, ragg, cust) ==
    LET merged1 == MergeLeft(ord, agg, "order_id", NoItems)
        merged2 == MergeLeft(merged1, ragg, "order_id", [review_score |-> NoScore])
    IN MergeCustomers(merged2, cust)

\* 8. Clean Up: final_df['review_score'].fillna(0)
FillNa(df) ==
    [ i \in 1..Len(df) |->
        IF df[i].review_score = NoScore
        THEN [ df[i] EXCEPT !.review_score = Frac(0, 1) ]
        ELSE df[i] ]

\* ------------------------------------------------------------- state
VARIABLES
    pc,               \* the statement the loader script is at
    err,              \* the exception that ended the run, or "none"
    steps,            \* the steps of the script completed so far
    orders, items, customers, reviews, products,   \* the loaded frames
    orders_read,      \* olist_orders_dataset as the database returned it
    items_enriched, order_items_agg, reviews_agg, final_df,
    csv,              \* data/processed/clean_data.csv
    up_pc,            \* send_to_hubspot: "idle", "loop" or "done"
    records,          \* its argument
    i,                \* the loop variable
    posts,            \* the requests made, in order, with their answers
    log,              \* what it printed
    sleeps            \* its calls of time.sleep, in tenths of a second

loader_vars ==
    << pc, err, steps, orders, items, customers, reviews, products, orders_read,
       items_enriched, order_items_agg, reviews_agg, final_df, csv >>
upload_vars == << up_pc, records, i, posts, log, sleeps >>
vars == << loader_vars, upload_vars >>

NoFile == [exists |-> FALSE, rows |-> <<>>]

LoaderInit ==
    /\ pc = "read_orders"
    /\ err = "none"
    /\ steps = <<>>
    /\ orders = <<>> /\ items = <<>> /\ customers = <<>>
    /\ reviews = <<>> /\ products = <<>>
    /\ orders_read = <<>>
    /\ items_enriched = <<>> /\ order_items_agg = <<>>
    /\ reviews_agg = <<>> /\ final_df = <<>>
    /\ csv = NoFile

UploadIdle ==
    /\ up_pc = "idle"
    /\ records = <<>>
    /\ i = 0
    /\ posts = <<>>
    /\ log = <<>>
    /\ sleeps = <<>>

Init == LoaderInit /\ UploadIdle

RowsRead ==
    Len(orders) + Len(items) + Len(customers) + Len(reviews) + Len(products)

ReadSteps ==
    {"read_orders", "read_items", "read_customers", "read_reviews", "read_products"}
FrameSteps ==
    {"fix_dates", "filter", "enrich", "aggregate", "prepare_reviews", "merge", "clean_up"}

Done(step, next) ==
    /\ pc = step
    /\ pc' = next
    /\ steps' = Append(steps, step)
    /\ err' = err
    /\ csv' = csv

\* 1. Load Data from Database (lines 36-40): whatever the tables hold.
ReadOrders ==
    /\ Done("read_orders", "read_items")
    /\ \E t \in OrderTables(MaxRows - RowsRead) : orders' = t /\ orders_read' = t
    /\ UNCHANGED << items, customers, reviews, products, items_enriched,
                    order_items_agg, reviews_agg, final_df, upload_vars >>

ReadItems ==
    /\ Done("read_items", "read_customers")
    /\ \E t \in ItemTables(MaxRows - RowsRead) : items' = t
    /\ UNCHANGED << orders_read, orders, customers, reviews, products, items_enriched,
                    order_items_agg, reviews_agg, final_df, upload_vars >>

ReadCustomers ==
    /\ Done("read_customers", "read_reviews")
    /\ \E t \in CustomerTables(MaxRows - RowsRead) : customers' = t
    /\ UNCHANGED << orders_read, orders, items, reviews, products, items_enriched,
                    order_items_agg, reviews_agg, final_df, upload_vars >>

ReadReviews ==
    /\ Done("read_reviews", "read_products")
    /\ \E t \in ReviewTables(MaxRows - RowsRead) : reviews' = t
    /\ UNCHANGED << orders_read, orders, items, customers, products, items_enriched,
                    order_items_agg, reviews_agg, final_df, upload_vars >>

ReadProducts ==
    /\ Done("read_products", "fix_dates")
    /\ \E t \in ProductTables(MaxRows - RowsRead) : products' = t
    /\ UNCHANGED << orders_read, orders, items, customers, reviews, items_enriched,
                    order_items_agg, reviews_agg, final_df, upload_vars >>

FixDateTypes ==
    /\ Done("fix_dates", "filter")
    /\ orders' = FixDates(orders)
    /\ UNCHANGED << orders_read, items, customers, reviews, products, items_enriched,
                    order_items_agg, reviews_agg, final_df, upload_vars >>

FilterGhostOrders ==
    /\ Done("filter", "enrich")
    /\ orders' = FilterDelivered(orders)
    /\ UNCHANGED << orders_read, items, customers, reviews, products, items_enriched,
                    order_items_agg, reviews_agg, final_df, upload_vars >>

EnrichItemsWithCategory ==
    /\ Done("enrich", "aggregate")
    /\ items_enriched' = EnrichItems(items, products)
    /\ UNCHANGED << orders_read, orders, items, customers, reviews, products,
                    order_items_agg, reviews_agg, final_df, upload_vars >>

AggregateOrderItems ==
    /\ Done("aggregate", "prepare_reviews")
    /\ order_items_agg' = AddTotalOrderValue(AggregateItems(items_enriched))
    /\ UNCHANGED << orders_read, orders, items, customers, reviews, products,
                    items_enriched, reviews_agg, final_df, upload_vars >>

PrepareReviewScores ==
    /\ Done("prepare_reviews", "merge")
    /\ reviews_agg' = PrepareReviews(reviews)
    /\ UNCHANGED << orders_read, orders, items, customers, reviews, products,
                    items_enriched, order_items_agg, final_df, upload_vars >>

TheGreatMerge ==
    /\ Done("merge", "clean_up")
    /\ final_df' = GreatMerge(orders, order_items_agg, reviews_agg, customers)
    /\ UNCHANGED << orders_read, orders, items, customers, reviews, products,
                    items_enriched, order_items_agg, reviews_agg, upload_vars >>

CleanUp ==
    /\ Done("clean_up", "returned")
    /\ final_df' = FillNa(final_df)
    /\ UNCHANGED << orders_read, orders, items, customers, reviews, products,
                    items_enriched, order_items_agg, reviews_agg, upload_vars >>

ExceptionSwallowed == "returned"

\* Nothing in the script catches an exception: it leaves load_and_clean_data
\* and the script body, and the process ends.
AfterException == "aborted"

\* A table cannot be read (pd.read_sql raises).
ReadFails ==
    /\ pc \in ReadSteps
    /\ pc' = AfterException
    /\ err' = "SourceUnavailable"
    /\ UNCHANGED << orders_read, steps, orders, items, customers, reviews, products,
                    items_enriched, order_items_agg, reviews_agg, final_df,
                    csv, upload_vars >>

\* A column the step names is absent from a loaded frame (KeyError).
ColumnMissing ==
    /\ pc \in FrameSteps
    /\ pc' = AfterException
    /\ err' = "KeyError"
    /\ UNCHANGED << orders_read, steps, orders, items, customers, reviews, products,
                    items_enriched, order_items_agg, reviews_agg, final_df,
                    csv, upload_vars >>

\* __main__: df.to_csv(output_path, index=False) on the returned frame.
SaveCsv ==
    /\ pc = "returned"
    /\ pc' = "saved"
    /\ steps' = Append(steps, "save")
    /\ csv' = [exists |-> TRUE, rows |-> final_df]
    /\ UNCHANGED << orders_read, err, orders, items, customers, reviews, products,
                    items_enriched, order_items_agg, reviews_agg, final_df,
                    upload_vars >>

\* ---------------------------------------------------- send_to_hubspot
API_URL == "https://api.hubapi.com/crm/v3/objects/contacts/batch/create"

\* The status codes the platform answers with in the model.
Succeeded == {200, 201}
RateLimited == {429}
HttpErrors == {400, 500}

\* math.ceil(total_records / BATCH_SIZE)
NumBatches(n) == (n + BATCH_SIZE - 1) \div BATCH_SIZE

StartIdx(k) == k * BATCH_SIZE

EndIdx(k) == StartIdx(k) + BATCH_SIZE

\* records[start_idx:end_idx]
Batch(recs, k) == SubSeq(recs, StartIdx(k) + 1, Min(EndIdx(k), Len(recs)))

\* requests.post(API_URL, data=payload, headers=headers)
Request(k) ==
    [ method |-> "POST", url |-> API_URL, batch |-> k, inputs |-> Batch(records, k) ]

Answered(k, code) == Request(k) @@ [raised |-> FALSE, status |-> code]
Unanswered(k) == Request(k) @@ [raised |-> TRUE, status |-> 0]

RetrySameBatch(k) == k

\* `continue` after a 429: the loop goes on with the next batch.
AfterRateLimit(k) == k + 1

ContinueAfterConnectionError(k) == [pc |-> "loop", i |-> k + 1]

\* `break` in the except clause: the loop is left.
AfterConnectionError(k) == [pc |-> "done", i |-> k]

\* send_to_hubspot(records) is called with a list of distinct contacts.
StartUpload ==
    /\ up_pc = "idle"
    /\ \E n \in 0..MaxRecords : records' = [ k \in 1..n |-> k ]
    /\ up_pc' = "loop"
    /\ i' = 0
    /\ log' = Append(log, [msg |-> "Starting Upload", batch |-> NumBatches(Len(records'))])
    /\ UNCHANGED << posts, sleeps, loader_vars >>

InLoop == up_pc = "loop" /\ i < NumBatches(Len(records))

\* The batch is answered 200 or 201.
PostSucceeds ==
    /\ InLoop
    /\ \E code \in Succeeded : posts' = Append(posts, Answered(i, code))
    /\ log' = IF i % 10 = 0
              THEN Append(log, [msg |-> "uploaded successfully", batch |-> i])
              ELSE log
    /\ sleeps' = Append(sleeps, 5)
    /\ i' = i + 1
    /\ UNCHANGED << up_pc, records, loader_vars >>

\* The batch is answered 429.
PostRateLimited ==
    /\ InLoop
    /\ \E code \in RateLimited : posts' = Append(posts, Answered(i, code))
    /\ log' = Append(log, [msg |-> "Rate Limit Hit", batch |-> i])
    /\ sleeps' = Append(sleeps, 100)
    /\ i' = AfterRateLimit(i)
    /\ UNCHANGED << up_pc, records, loader_vars >>

\* The batch is answered with another status.
PostHttpError ==
    /\ InLoop
    /\ \E code \in HttpErrors : posts' = Append(posts, Answered(i, code))
    /\ log' = Append(log, [msg |-> "Error Batch", batch |-> i])
    /\ sleeps' = Append(sleeps, 5)
    /\ i' = i + 1
    /\ UNCHANGED << up_pc, records, loader_vars >>

\* requests.post raises.
PostRaises ==
    /\ InLoop
    /\ posts' = Append(posts, Unanswered(i))
    /\ log' = Append(log, [msg |-> "Critical connection error", batch |-> i])
    /\ up_pc' = AfterConnectionError(i).pc
    /\ i' = AfterConnectionError(i).i
    /\ UNCHANGED << sleeps, records, loader_vars >>

\* range(num_batches) is exhausted.
LoopEnds ==
    /\ up_pc = "loop"
    /\ i >= NumBatches(Len(records))
    /\ up_pc' = "done"
    /\ UNCHANGED << records, i, posts, log, sleeps, loader_vars >>

NextUpload ==
    \/ StartUpload \/ PostSucceeds \/ PostRateLimited \/ PostHttpError
    \/ PostRaises \/ LoopEnds

SpecUpload == Init /\ [][NextUpload]_vars

Next ==
    \/ ReadOrders \/ ReadItems \/ ReadCustomers \/ ReadReviews \/ ReadProducts
    \/ FixDateTypes \/ FilterGhostOrders \/ EnrichItemsWithCategory
    \/ AggregateOrderItems \/ PrepareReviewScores \/ TheGreatMerge \/ CleanUp
    \/ ReadFails \/ ColumnMissing \/ SaveCsv

Spec == Init /\ [][Next]_vars

\* ============================================================ claims
\* load_and_clean_data has returned the GoldenRecord (final_df).
Returned == pc \in {"returned", "saved"}
StepDone(step) == \E k \in 1..Len(steps) : steps[k] = step

Rows(df, key, v) == { j \in 1..Len(df) : df[j][key] = v }

RECURSIVE Total(_, _, _)
Total(df, S, col) ==
    IF S = {} THEN 0
    ELSE LET j == CHOOSE x \in S : TRUE
         IN df[j][col] + Total(df, S \ {j}, col)

DeliveredRead == { j \in 1..Len(orders_read) : orders_read[j].order_status = "delivered" }

\* C1: every row of the returned GoldenRecord has order_status exactly
\* "delivered", and no order read with another status (also one that differs
\* only in case) has a row in it.
C1_OnlyDelivered ==
    Returned =>
        /\ \A r \in 1..Len(final_df) : final_df[r].order_status = "delivered"
        /\ \A j \in 1..Len(orders_read) :
              orders_read[j].order_status # "delivered"
                  => Rows(final_df, "order_id", orders_read[j].order_id) = {}

\* C1 witness: an order with status "Delivered" and a matching customer was
\* read next to a delivered one, and the GoldenRecord holds a row.
C1_Witness ==
    /\ Returned
    /\ final_df # <<>>
    /\ \E j \in 1..Len(orders_read) :
          /\ orders_read[j].order_status = "Delivered"
          /\ Rows(customers, "customer_id", orders_read[j].customer_id) # {}

\* C2: review_score of every GoldenRecord row is present; it is the mean of
\* the order's review scores (score * count = sum), or 0 without a review.
C2_ReviewScoreMeanOrZero ==
    Returned =>
        \A r \in 1..Len(final_df) :
            LET S == Rows(reviews, "order_id", final_df[r].order_id)
                score == final_df[r].review_score
            IN /\ score # NoScore
               /\ score[2] > 0
               /\ IF S = {} THEN score = <<0, 1>>
                  ELSE score[1] * Cardinality(S) = score[2] * Total(reviews, S, "review_score")

\* C2 witness: a row whose order has two reviews with different scores, and
\* a row whose mean is not a whole number.
C2_Witness ==
    /\ Returned
    /\ \E r \in 1..Len(final_df) :
          /\ Cardinality(Rows(reviews, "order_id", final_df[r].order_id)) = 2
          /\ final_df[r].review_score = <<9, 2>>

\* C3: the customer_id of every GoldenRecord row is in the Customer table,
\* and a delivered order without a Customer row has no row.
C3_NoDanglingCustomer ==
    Returned =>
        /\ \A r \in 1..Len(final_df) :
              Rows(customers, "customer_id", final_df[r].customer_id) # {}
        /\ \A j \in DeliveredRead :
              Rows(customers, "customer_id", orders_read[j].customer_id) = {}
                  => Rows(final_df, "order_id", orders_read[j].order_id) = {}

\* C3 witness: a delivered order without a Customer row was read, next to
\* one that made it into the GoldenRecord.
C3_Witness ==
    /\ Returned
    /\ final_df # <<>>
    /\ \E j \in DeliveredRead :
          Rows(customers, "customer_id", orders_read[j].customer_id) = {}

\* Every GoldenRecord row is the row of exactly one delivered order read.
EachRowOneOrder ==
    \A r \in 1..Len(final_df) :
        Cardinality({ j \in DeliveredRead :
                        orders_read[j].order_id = final_df[r].order_id }) = 1

\* C4 (as claimed): every delivered order with a matching customer has
\* exactly one GoldenRecord row, and every row is one delivered order's.
C4_ExactlyOneRowPerOrder ==
    Returned =>
        /\ \A j \in DeliveredRead :
              Rows(customers, "customer_id", orders_read[j].customer_id) # {}
                  => Cardinality(Rows(final_df, "order_id", orders_read[j].order_id)) = 1
        /\ EachRowOneOrder

\* C4 (amended): a delivered order has one GoldenRecord row per Customer row
\* with its customer_id (so exactly one when that customer_id is in Customer
\* once), with or without items and reviews; every row is one delivered
\* order's.
C4_OneRowPerMatchingCustomer ==
    Returned =>
        /\ \A j \in DeliveredRead :
              Cardinality(Rows(final_df, "order_id", orders_read[j].order_id))
                = Cardinality(Rows(customers, "customer_id", orders_read[j].customer_id))
        /\ EachRowOneOrder

\* C4 witness: a delivered order without items and without reviews, whose
\* customer_id is in Customer once, has its one row.
C4_Witness ==
    /\ Returned
    /\ \E j \in DeliveredRead :
          /\ Rows(items, "order_id", orders_read[j].order_id) = {}
          /\ Rows(reviews, "order_id", orders_read[j].order_id) = {}
          /\ Cardinality(Rows(customers, "customer_id", orders_read[j].customer_id)) = 1
          /\ Cardinality(Rows(final_df, "order_id", orders_read[j].order_id)) = 1

\* C5: a GoldenRecord row of an order with item rows carries the sums of all
\* of them and their total; the total is missing exactly without item rows.
C5_ItemTotals ==
    Returned =>
        \A r \in 1..Len(final_df) :
            LET S == Rows(items, "order_id", final_df[r].order_id)
                row == final_df[r]
            IN IF S = {}
               THEN row.total_order_value = NaN
               ELSE /\ row.price = Total(items, S, "price")
                    /\ row.freight_value = Total(items, S, "freight_value")
                    /\ row.total_order_value = row.price + row.freight_value
                    /\ row.total_order_value # NaN

\* C5 witness: a row of an order with two item rows, one of a product that
\* is not in Product.
C5_Witness ==
    /\ Returned
    /\ \E r \in 1..Len(final_df) :
          LET S == Rows(items, "order_id", final_df[r].order_id)
          IN /\ Cardinality(S) = 2
             /\ \E j \in S : Rows(products, "product_id", items[j].product_id) = {}
             /\ final_df[r].total_order_value > 0

\* The category the left join to Product gives item row j.
JoinedCategory(j) ==
    LET P == Rows(products, "product_id", items[j].product_id)
    IN IF P = {} THEN NoCategory
       ELSE products[CHOOSE x \in P : TRUE].product_category_name

FirstOf(S) == CHOOSE x \in S : \A y \in S : x <= y

\* C6 (as claimed): the representative category of an order in the item
\* aggregate is the category joined to its first item row.
C6_CategoryOfFirstItemRow ==
    StepDone("aggregate") =>
        \A a \in 1..Len(order_items_agg) :
            LET S == Rows(items, "order_id", order_items_agg[a].order_id)
            IN /\ S # {}
               /\ order_items_agg[a].product_category_name = JoinedCategory(FirstOf(S))

\* C6 (amended): it is the category joined to the first item row of the
\* order whose category is not missing, and missing when all are.
C6_FirstCategoryNotMissing ==
    StepDone("aggregate") =>
        \A a \in 1..Len(order_items_agg) :
            LET S == Rows(items, "order_id", order_items_agg[a].order_id)
                K == { j \in S : JoinedCategory(j) # NoCategory }
            IN /\ S # {}
               /\ order_items_agg[a].product_category_name
                    = IF K = {} THEN NoCategory ELSE JoinedCategory(FirstOf(K))

\* C6 witness: an order in the item aggregate has two item rows with
\* different categories, both present.
C6_Witness ==
    /\ StepDone("aggregate")
    /\ \E a \in 1..Len(order_items_agg) :
          LET S == Rows(items, "order_id", order_items_agg[a].order_id)
          IN \E j, k \in S :
                /\ j < k
                /\ JoinedCategory(j) # NoCategory
                /\ JoinedCategory(k) # NoCategory
                /\ JoinedCategory(j) # JoinedCategory(k)

AllSteps ==
    ReadSteps \cup FrameSteps

\* C9: clean_data.csv exists only once every read and every step of
\* load_and_clean_data has completed without an error, and then holds the
\* returned GoldenRecord; after a fatal error there is no file.
C9_NoPartialOutput ==
    /\ err # "none" => ~csv.exists
    /\ csv.exists =>
          /\ \A st \in AllSteps : StepDone(st)
          /\ csv.rows = final_df
          /\ pc = "saved"

\* C9 witness: the run was aborted by a missing column after the tables were
\* read and the item aggregate built, and no file was written.
C9_Witness ==
    /\ err = "KeyError"
    /\ pc = "aborted"
    /\ StepDone("aggregate")
    /\ order_items_agg # <<>>
    /\ ~csv.exists

\* ------------------------------------------------------ uploader claims
NB == NumBatches(Len(records))

\* C7 (as claimed): after a 429 answer the uploader sleeps and the same
\* batch is the next one posted; the upload neither goes on to another
\* batch nor finishes before that.
C7_RateLimitedBatchRetried ==
    \A k \in 1..Len(posts) :
        posts[k].status \in RateLimited =>
            /\ \E t \in 1..Len(sleeps) : sleeps[t] = 100
            /\ k < Len(posts) => posts[k + 1].batch = posts[k].batch
            /\ up_pc = "done" => k < Len(posts)

\* C8: a batch answered with an error status is reported and the next batch
\* follows; a connection error is the last request of the upload, which is
\* over; every request made is a create request.
C8_ErrorSkippedExceptionAborts ==
    \A k \in 1..Len(posts) :
        /\ posts[k].method = "POST" /\ posts[k].url = API_URL
        /\ (~posts[k].raised /\ posts[k].status \in HttpErrors) =>
              /\ \E t \in 1..Len(log) :
                    log[t] = [msg |-> "Error Batch", batch |-> posts[k].batch]
              /\ k < Len(posts) => posts[k + 1].batch = posts[k].batch + 1
              /\ k = Len(posts) => i = posts[k].batch + 1
              /\ (k = Len(posts) /\ up_pc = "done") => posts[k].batch = NB - 1
        /\ posts[k].raised =>
              /\ k = Len(posts)
              /\ up_pc = "done"
              /\ posts[k].batch < NB - 1 => i < NB

\* C8 witness: a batch succeeded, the next was answered with an error
\* status, the one after raised, and a batch was left unposted.
C8_Witness ==
    /\ up_pc = "done"
    /\ Len(posts) = 3
    /\ posts[1].status \in Succeeded
    /\ posts[2].status \in HttpErrors
    /\ posts[3].raised
    /\ NB = 4

\* C10: the batches are NumBatches = ceil(n / BATCH_SIZE) consecutive slices
\* of at most BATCH_SIZE records that make up the list; they are posted in
\* increasing order, each at most once, so no record is in two requests and
\* there are at most NumBatches requests; none for an empty list.
C10_BatchesPartitionAndPostOnce ==
    up_pc # "idle" =>
        /\ NB * BATCH_SIZE >= Len(records)
        /\ (NB - 1) * BATCH_SIZE < Len(records) \/ (NB = 0 /\ Len(records) = 0)
        /\ Flatten([ k \in 1..NB |-> Batch(records, k - 1) ]) = records
        /\ \A k \in 0..(NB - 1) : Len(Batch(records, k)) \in 1..BATCH_SIZE
        /\ \A k \in 1..Len(posts) :
              /\ posts[k].batch \in 0..(NB - 1)
              /\ posts[k].inputs = Batch(records, posts[k].batch)
              /\ \A j \in 1..(k - 1) :
                    /\ posts[j].batch < posts[k].batch
                    /\ { posts[j].inputs[x] : x \in 1..Len(posts[j].inputs) }
                         \cap { posts[k].inputs[x] : x \in 1..Len(posts[k].inputs) } = {}
        /\ Len(posts) <= NB
        /\ i <= NB
        /\ Len(records) = 0 => posts = <<>>

\* C10 witness: an upload of four batches, the last one short, ended with
\* every batch posted once, one of them answered 429.
C10_Witness ==
    /\ up_pc = "done"
    /\ NB = 4
    /\ Len(records) % BATCH_SIZE # 0
    /\ Len(posts) = NB
    /\ \E k \in 1..Len(posts) : posts[k].status \in RateLimited

====
